---- MODULE Spec2Model ----
(***************************************************************************)
(* Multithreaded prime enumerator (src/prime_numbers.cpp): the range       *)
(* [1, limit] is split in blocks, one worker thread per block scans its    *)
(* block with isPrime and writes the primes to a per-thread temp file, and *)
(* after joining all threads main merges the files (falling back to the    *)
(* in-memory vectors), sorts and removes duplicates.                       *)
(*                                                                         *)
(* Worker indices are 0-based as in the code.  A file is a record          *)
(* [exists, data] with data the sequence of characters it holds.           *)
(***************************************************************************)
EXTENDS Integers, Sequences, FiniteSets, TLC

\* Largest limit the command line supplies in the model.
MaxLimit == 11
\* Largest value std::thread::hardware_concurrency() reports in the model.
MaxHw == 3

VARIABLES
    limit,        \* main: long long limit (validated, >= 0)
    hw,           \* main: hardware thread count after the default of 2
    numThreads,   \* main: number of worker threads
    ranges,       \* main: std::vector<Range>, index -> [start, end]
    tempFiles,    \* main: std::vector<std::string>, index -> file name
    locals,       \* main: std::vector<std::vector<long long>>
    targ,         \* the arguments each std::thread was constructed with
    wpc,          \* position of each worker thread inside workerTask
    ofsOk,        \* workerTask: state of the local std::ofstream after opening
    mainpc,       \* position of main
    idx,          \* main: the loop variable of the current for loop
    all,          \* main: the merge accumulator / final sequence
    gotFromFile,  \* main: value of gotFromFile in each merge iteration done
    fs,           \* the file system: file name -> [exists, data]
    output,       \* what main printed as the result
    detected,     \* main: what std::thread::hardware_concurrency() returned
    calc          \* a run of one function on fixed-width integers (see below)

vars == <<limit, hw, numThreads, ranges, tempFiles, locals, targ, wpc, ofsOk,
          mainpc, idx, all, gotFromFile, fs, output, detected, calc>>

-----------------------------------------------------------------------------
(* Pure helpers translated from the code *)

Min(a, b) == IF a < b THEN a ELSE b
Max(a, b) == IF a > b THEN a ELSE b

\* isPrime, the loop over odd divisors d with d*d <= n (lines 33-35)
RECURSIVE OddDivisorLoop(_, _)
OddDivisorLoop(n, d) ==
    IF d * d <= n
    THEN IF n % d = 0 THEN FALSE ELSE OddDivisorLoop(n, d + 2)
    ELSE TRUE

isPrime(n) ==
    IF n < 2 THEN FALSE
    ELSE IF n = 2 THEN TRUE
    ELSE IF n % 2 = 0 THEN FALSE
    ELSE OddDivisorLoop(n, 3)

\* workerTask, the scan loop: for x = start; x <= end; ++x (lines 61-65)
RECURSIVE ScanRangeBelowEnd(_, _)
ScanRangeBelowEnd(x, end) ==
    IF x < end
    THEN (IF isPrime(x) THEN <<x>> ELSE <<>>) \o ScanRangeBelowEnd(x + 1, end)
    ELSE <<>>

RECURSIVE ScanRange(_, _)
ScanRange(x, end) ==
    IF x <= end
    THEN (IF isPrime(x) THEN <<x>> ELSE <<>>) \o ScanRange(x + 1, end)
    ELSE <<>>

\* operator<< of an integer: its decimal digits, most significant first
DigitChars == <<"0", "1", "2", "3", "4", "5", "6", "7", "8", "9">>
DigitChar(d) == DigitChars[d + 1]
IsDigit(c) == \E d \in 0..9 : DigitChars[d + 1] = c
DigitVal(c) == CHOOSE d \in 0..9 : DigitChars[d + 1] = c
IsSpace(c) == c \in {" ", "\n"}

RECURSIVE ToDecimal(_)
ToDecimal(n) ==
    IF n < 0 THEN <<"-">> \o ToDecimal(0 - n)
    ELSE IF n < 10 THEN <<DigitChar(n)>>
    ELSE ToDecimal(n \div 10) \o <<DigitChar(n % 10)>>

\* the characters workerTask sends to the ofstream (lines 70-73)
RECURSIVE WriteItems(_, _)
WriteItems(localOut, i) ==
    IF i <= Len(localOut)
    THEN ToDecimal(localOut[i])
            \o (IF i = Len(localOut) THEN <<>> ELSE <<" ">>)
            \o WriteItems(localOut, i + 1)
    ELSE <<>>

RECURSIVE WriteItemsNoSeparator(_, _)
WriteItemsNoSeparator(localOut, i) ==
    IF i <= Len(localOut)
    THEN ToDecimal(localOut[i]) \o WriteItemsNoSeparator(localOut, i + 1)
    ELSE <<>>

SerializeNoSeparator(localOut) == WriteItemsNoSeparator(localOut, 1) \o <<"\n">>

Serialize(localOut) == WriteItems(localOut, 1) \o <<"\n">>

\* operator>> of a long long: skip white space, then read a run of digits
RECURSIVE SkipSpace(_, _)
SkipSpace(s, p) ==
    IF p <= Len(s) /\ IsSpace(s[p]) THEN SkipSpace(s, p + 1) ELSE p

RECURSIVE DigitsEnd(_, _)
DigitsEnd(s, p) ==
    IF p <= Len(s) /\ IsDigit(s[p]) THEN DigitsEnd(s, p + 1) ELSE p

RECURSIVE DigitsValue(_, _, _, _)
DigitsValue(s, p, q, acc) ==
    IF p < q THEN DigitsValue(s, p + 1, q, acc * 10 + DigitVal(s[p])) ELSE acc

\* while (ifs >> v) all.emplace_back(v): the integers read from position p
\* until the first extraction that fails (lines 182-185)
RECURSIVE ReadInts(_, _)
ReadInts(s, p) ==
    LET b == SkipSpace(s, p)
        e == DigitsEnd(s, b)
    IN  IF e > b
        THEN <<DigitsValue(s, b, e, 0)>> \o ReadInts(s, e)
        ELSE <<>>

\* std::sort on a vector of long long (line 194): the element at position i
\* moves to the position given by the number of elements that sort before it
SortRank(s, i) ==
    Cardinality({j \in 1..Len(s) : s[j] < s[i] \/ (s[j] = s[i] /\ j <= i)})

Sort(s) == [k \in 1..Len(s) |-> s[CHOOSE i \in 1..Len(s) : SortRank(s, i) = k]]

\* all.erase(std::unique(...), all.end()): drop consecutive duplicates (195)
UniqueKeepsAll(s) == s

RECURSIVE Unique(_)
Unique(s) ==
    IF Len(s) < 2 THEN s
    ELSE IF s[1] = s[2] THEN Unique(Tail(s))
    ELSE <<s[1]>> \o Unique(Tail(s))

-----------------------------------------------------------------------------
(* Planning: thread count, block size, ranges (lines 113-140) *)

\* hardware_concurrency() with the default of 2 when it reports 0
HardwareNoDefault(d) == d

Hardware(d) == IF d = 0 THEN 2 ELSE d

NumThreads(h, lim) == IF lim < 2 THEN 1 ELSE Min(h, Max(1, lim))

ceil_div_floor(a, b) == a \div b

ceil_div(a, b) == (a + b - 1) \div b

Block(lim, n) == IF n > 0 THEN ceil_div(lim, n) ELSE lim

PlanRangeFromZero(i, block, lim) ==
    LET start == i * block
        end   == Min(lim, (i + 1) * block)
    IN  IF start > end THEN [start |-> 1, end |-> 0]
        ELSE [start |-> start, end |-> end]

PlanRangeNoSentinel(i, block, lim) ==
    [start |-> i * block + 1, end |-> Min(lim, (i + 1) * block)]

PlanRange(i, block, lim) ==
    LET start == i * block + 1
        end   == Min(lim, (i + 1) * block)
    IN  IF start > end THEN [start |-> 1, end |-> 0]
        ELSE [start |-> start, end |-> end]

\* "primes_thread_" << (i + 1) << ".txt" (lines 149-151)
FileName(i) == <<"primes_thread_">> \o ToDecimal(i + 1) \o <<".txt">>

\* the most threads a run of the model starts
MaxThreads == Max(Hardware(0), MaxHw)

FileNames == {FileName(i) : i \in 0..(MaxThreads - 1)}

\* a file name that holds no file
NoFile == [exists |-> FALSE, data |-> <<>>]

\* what a temp file left by an earlier run or another program may hold: here
\* integers out of order, repeated and not prime, then text that is no integer
StaleContents == { <<"9", " ", "4", " ", "4", " ", "x", " ", "5", "\n">> }

StaleFiles == {[exists |-> TRUE, data |-> d] : d \in StaleContents}

Workers == 0..(numThreads - 1)

-----------------------------------------------------------------------------
Init ==
    /\ limit \in 0..MaxLimit
    /\ hw = 0
    /\ numThreads = 0
    /\ ranges = <<>>
    /\ tempFiles = <<>>
    /\ locals = <<>>
    /\ targ = <<>>
    /\ wpc = <<>>
    /\ ofsOk = <<>>
    /\ mainpc = "plan"
    /\ idx = 0
    /\ all = <<>>
    /\ gotFromFile = <<>>
    /\ fs \in [FileNames -> {NoFile} \cup StaleFiles]
    /\ output = [printed |-> FALSE, primes |-> <<>>]
    /\ detected = 0
    /\ calc = [pc |-> "off"]

\* main, lines 113-140: thread count, block size and the ranges
Plan ==
    /\ mainpc = "plan"
    /\ \E d \in 0..MaxHw :
         LET h == Hardware(d)
             n == NumThreads(h, limit)
             block == Block(limit, n)
         IN  /\ detected' = d
             /\ hw' = h
             /\ numThreads' = n
             /\ ranges' = [i \in 0..(n - 1) |-> PlanRange(i, block, limit)]
    /\ mainpc' = "names"
    /\ UNCHANGED <<limit, tempFiles, locals, targ, wpc, ofsOk, idx, all,
                   gotFromFile, fs, output, calc>>

\* main, lines 143-152: the vectors of threads, locals and temp file names
NameFiles ==
    /\ mainpc = "names"
    /\ locals' = [i \in Workers |-> <<>>]
    /\ tempFiles' = [i \in Workers |-> FileName(i)]
    /\ wpc' = [i \in Workers |-> "unborn"]
    /\ ofsOk' = [i \in Workers |-> FALSE]
    /\ targ' = [i \in {} |-> 0]
    /\ mainpc' = "spawn"
    /\ idx' = 0
    /\ UNCHANGED <<detected, calc, limit, hw, numThreads, ranges, all, gotFromFile, fs, output>>

\* the arguments of threads.emplace_back(workerTask, i, ranges[i],
\* std::ref(locals[i]), std::ref(tempFiles[i])) (line 166); a reference is
\* the index of the element it refers to
SpawnArgsFirstFile(i) ==
    [workerId |-> i, range |-> ranges[i], localOut |-> i, fileName |-> 0]

SpawnArgs(i) ==
    [workerId |-> i, range |-> ranges[i], localOut |-> i, fileName |-> i]

\* main, lines 165-167: one iteration of the loop that creates the threads
Spawn ==
    /\ mainpc = "spawn"
    /\ idx < numThreads
    /\ targ' = [j \in DOMAIN targ \cup {idx} |->
                    IF j = idx THEN SpawnArgs(idx) ELSE targ[j]]
    /\ wpc' = [wpc EXCEPT ![idx] = "compute"]
    /\ IF idx + 1 < numThreads
       THEN idx' = idx + 1 /\ mainpc' = mainpc
       ELSE idx' = 0 /\ mainpc' = "join"
    /\ UNCHANGED <<detected, calc, limit, hw, numThreads, ranges, tempFiles, locals, ofsOk,
                   all, gotFromFile, fs, output>>

\* workerTask, lines 58-65: clear localOut and scan the range
WorkerCompute(w) ==
    /\ wpc[w] = "compute"
    /\ locals' = [locals EXCEPT ![targ[w].localOut] =
                      ScanRange(targ[w].range.start, targ[w].range.end)]
    /\ wpc' = [wpc EXCEPT ![w] = "open"]
    /\ UNCHANGED <<detected, calc, limit, hw, numThreads, ranges, tempFiles, targ, ofsOk,
                   mainpc, idx, all, gotFromFile, fs, output>>

\* workerTask, line 68: std::ofstream ofs(fileName) creates or truncates the
\* file, or fails and leaves the file system as it is
WorkerOpen(w) ==
    /\ wpc[w] = "open"
    /\ \E ok \in BOOLEAN :
         /\ ofsOk' = [ofsOk EXCEPT ![w] = ok]
         /\ fs' = IF ok
                  THEN [fs EXCEPT ![tempFiles[targ[w].fileName]] =
                            [exists |-> TRUE, data |-> <<>>]]
                  ELSE fs
    /\ wpc' = [wpc EXCEPT ![w] = "write"]
    /\ UNCHANGED <<detected, calc, limit, hw, numThreads, ranges, tempFiles, locals, targ,
                   mainpc, idx, all, gotFromFile, output>>

\* workerTask, lines 69-73: the file system after the worker wrote its vector
FsAfterWrite(w) ==
    [fs EXCEPT ![tempFiles[targ[w].fileName]] =
        [exists |-> TRUE, data |-> Serialize(locals[targ[w].localOut])]]

\* workerTask, lines 74-78: the open failed; a warning is all that happens
FsAfterWarningRemovesFiles(w) == [n \in FileNames |-> NoFile]

FsAfterWarning(w) == fs

\* workerTask, lines 69-79: write the vector or warn, then return
WorkerWrite(w) ==
    /\ wpc[w] = "write"
    /\ fs' = IF ofsOk[w] THEN FsAfterWrite(w) ELSE FsAfterWarning(w)
    /\ wpc' = [wpc EXCEPT ![w] = "done"]
    /\ UNCHANGED <<detected, calc, limit, hw, numThreads, ranges, tempFiles, locals, targ,
                   ofsOk, mainpc, idx, all, gotFromFile, output>>

\* t.join() returns once thread t has returned from workerTask (line 170)
JoinableAlways(t) == TRUE

JoinableOnceWritten(t) == wpc[t] = "done" /\ ofsOk[t]

Joinable(t) == wpc[t] = "done"

\* main, line 170: one iteration of the loop that joins the threads
Join ==
    /\ mainpc = "join"
    /\ idx < numThreads
    /\ Joinable(idx)
    /\ IF idx + 1 < numThreads
       THEN idx' = idx + 1 /\ mainpc' = mainpc
       ELSE idx' = 0 /\ mainpc' = "merge"
    /\ UNCHANGED <<detected, calc, limit, hw, numThreads, ranges, tempFiles, locals, targ,
                   wpc, ofsOk, all, gotFromFile, fs, output>>

\* main, lines 179-191: what one merge iteration appends for index i, given
\* whether the std::ifstream opened
MergeSourceBoth(i, opened) ==
    (IF opened THEN ReadInts(fs[tempFiles[i]].data, 1) ELSE <<>>) \o locals[i]

MergeSource(i, opened) ==
    IF opened THEN ReadInts(fs[tempFiles[i]].data, 1) ELSE locals[i]

\* main, lines 176-192: one iteration of the merge loop; std::ifstream opens
\* only a file that exists, and may fail on one that does
MergeStep ==
    /\ mainpc = "merge"
    /\ idx < numThreads
    /\ \E opened \in (IF fs[tempFiles[idx]].exists THEN BOOLEAN ELSE {FALSE}) :
         /\ gotFromFile' = [j \in DOMAIN gotFromFile \cup {idx} |->
                                IF j = idx THEN opened ELSE gotFromFile[j]]
         /\ all' = all \o MergeSource(idx, opened)
    /\ IF idx + 1 < numThreads
       THEN idx' = idx + 1 /\ mainpc' = mainpc
       ELSE idx' = 0 /\ mainpc' = "sort"
    /\ UNCHANGED <<detected, calc, limit, hw, numThreads, ranges, tempFiles, locals, targ,
                   wpc, ofsOk, fs, output>>

\* main, lines 194-195: sort and remove duplicates
SortUnique ==
    /\ mainpc = "sort"
    /\ all' = Unique(Sort(all))
    /\ mainpc' = "output"
    /\ UNCHANGED <<detected, calc, limit, hw, numThreads, ranges, tempFiles, locals, targ,
                   wpc, ofsOk, idx, gotFromFile, fs, output>>

\* main, lines 198-208: print "No primes" or the list
Output ==
    /\ mainpc = "output"
    /\ output' = [printed |-> TRUE,
                  primes |-> IF limit < 2 \/ all = <<>> THEN <<>> ELSE all]
    /\ mainpc' = "done"
    /\ UNCHANGED <<detected, calc, limit, hw, numThreads, ranges, tempFiles, locals, targ,
                   wpc, ofsOk, idx, all, gotFromFile, fs>>

Next ==
    \/ Plan
    \/ NameFiles
    \/ Spawn
    \/ \E w \in DOMAIN targ : WorkerCompute(w)
    \/ \E w \in DOMAIN targ : WorkerOpen(w)
    \/ \E w \in DOMAIN targ : WorkerWrite(w)
    \/ Join
    \/ MergeStep
    \/ SortUnique
    \/ Output

Spec == Init /\ [][Next]_vars

\* The steps of main, and the steps of worker thread w
MainStep == Plan \/ NameFiles \/ Spawn \/ Join \/ MergeStep \/ SortUnique \/ Output

WorkerStep(w) ==
    w \in DOMAIN targ /\ (WorkerCompute(w) \/ WorkerOpen(w) \/ WorkerWrite(w))

\* The operating system runs some thread that can run: main and each
\* std::thread are preemptible threads, and only main ever waits (in join())
FairSpec == Spec /\ WF_vars(Next)

-----------------------------------------------------------------------------
(* The functions on the fixed-width integers of the program.  long long has 64
   bits; the model keeps the two's complement range of IntBits bits.  A signed
   operation whose mathematical result is outside the range is undefined
   behaviour: any outcome may follow. *)

IntBits == 8
MaxInt == 2^(IntBits - 1) - 1
MinInt == 0 - 2^(IntBits - 1)
Fits(v) == MinInt <= v /\ v <= MaxInt

\* the pipeline does not run while one function is run alone
PipelineOff ==
    /\ limit = 0
    /\ hw = 0
    /\ numThreads = 0
    /\ ranges = <<>>
    /\ tempFiles = <<>>
    /\ locals = <<>>
    /\ targ = <<>>
    /\ wpc = <<>>
    /\ ofsOk = <<>>
    /\ mainpc = "off"
    /\ idx = 0
    /\ all = <<>>
    /\ gotFromFile = <<>>
    /\ fs = [n \in FileNames |-> NoFile]
    /\ output = [printed |-> FALSE, primes |-> <<>>]
    /\ detected = 0

pipelineVars == <<limit, hw, numThreads, ranges, tempFiles, locals, targ, wpc,
                  ofsOk, mainpc, idx, all, gotFromFile, fs, output, detected>>

\* a call isPrime(n) for any n of the integer type
IsPrimeInit ==
    /\ PipelineOff
    /\ \E n \in MinInt..MaxInt :
         calc = [pc |-> "entry", n |-> n, d |-> 0, result |-> FALSE,
                 overflow |-> FALSE]

\* isPrime, lines 29-31 and the loop initialisation of line 33
IsPrimeEntry ==
    /\ calc.pc = "entry"
    /\ calc' = IF calc.n < 2 THEN [calc EXCEPT !.pc = "returned", !.result = FALSE]
               ELSE IF calc.n = 2 THEN [calc EXCEPT !.pc = "returned", !.result = TRUE]
               ELSE IF calc.n % 2 = 0 THEN [calc EXCEPT !.pc = "returned", !.result = FALSE]
               ELSE [calc EXCEPT !.pc = "loop", !.d = 3]
    /\ UNCHANGED pipelineVars

\* isPrime, lines 33-36: one evaluation of the guard d * d <= n and, when it
\* holds, of the body and of d += 2
IsPrimeLoop ==
    /\ calc.pc = "loop"
    /\ LET undefined == {[calc EXCEPT !.pc = p, !.result = r, !.overflow = TRUE] :
                            p \in {"returned", "trapped"}, r \in BOOLEAN}
       IN  IF ~Fits(calc.d * calc.d) THEN calc' \in undefined
           ELSE IF calc.d * calc.d <= calc.n
           THEN IF calc.n % calc.d = 0
                THEN calc' = [calc EXCEPT !.pc = "returned", !.result = FALSE]
                ELSE IF ~Fits(calc.d + 2) THEN calc' \in undefined
                ELSE calc' = [calc EXCEPT !.d = calc.d + 2]
           ELSE calc' = [calc EXCEPT !.pc = "returned", !.result = TRUE]
    /\ UNCHANGED pipelineVars

IsPrimeNext == IsPrimeEntry \/ IsPrimeLoop

IsPrimeSpec == IsPrimeInit /\ [][IsPrimeNext]_vars

\* the planning of main run alone, for any limit parseLimit accepts and any
\* detection result
PlannerInit ==
    /\ PipelineOff
    /\ \E lim \in 0..MaxInt, det \in 0..MaxHw :
         calc = [pc |-> "count", limit |-> lim, detected |-> det, n |-> 0,
                 block |-> 0, i |-> 0, start |-> 0, end |-> 0,
                 overflow |-> FALSE]

\* main, lines 114-119: the number of threads
PlannerCount ==
    /\ calc.pc = "count"
    /\ calc' = [calc EXCEPT !.pc = "block",
                            !.n = NumThreads(Hardware(calc.detected), calc.limit)]
    /\ UNCHANGED pipelineVars

\* main, lines 126-129: block = (a + b - 1) / b with a = limit, b = numThreads
PlannerBlock ==
    /\ calc.pc = "block"
    /\ IF calc.n > 0
       THEN IF Fits(calc.limit + calc.n) /\ Fits(calc.limit + calc.n - 1)
            THEN calc' = [calc EXCEPT !.pc = "range",
                              !.block = (calc.limit + calc.n - 1) \div calc.n]
            ELSE \E v \in MinInt..MaxInt :
                    calc' = [calc EXCEPT !.pc = "undefined", !.block = v,
                                         !.overflow = TRUE]
       ELSE calc' = [calc EXCEPT !.pc = "range", !.block = calc.limit]
    /\ UNCHANGED pipelineVars

\* main, lines 133-140: one iteration of the loop that fills ranges
PlannerRange ==
    /\ calc.pc = "range"
    /\ calc.i < calc.n
    /\ LET i == calc.i
           block == calc.block
           start == i * block + 1
           end == Min(calc.limit, (i + 1) * block)
           r == IF start > end THEN [start |-> 1, end |-> 0]
                ELSE [start |-> start, end |-> end]
       IN  IF Fits(i * block) /\ Fits(start) /\ Fits((i + 1) * block)
           THEN calc' = [calc EXCEPT !.start = r.start, !.end = r.end,
                             !.i = i + 1,
                             !.pc = IF i + 1 < calc.n THEN "range" ELSE "planned"]
           ELSE \E v \in MinInt..MaxInt :
                   calc' = [calc EXCEPT !.pc = "undefined", !.start = v,
                                        !.overflow = TRUE]
    /\ UNCHANGED pipelineVars

PlannerNext == PlannerCount \/ PlannerBlock \/ PlannerRange

PlannerSpec == PlannerInit /\ [][PlannerNext]_vars

-----------------------------------------------------------------------------
(* What the properties below refer to *)

\* n is prime, by definition: at least 2 and no divisor strictly between 1 and n
PrimeNumber(n) == n >= 2 /\ \A d \in 2..(n - 1) : n % d # 0

\* the elements of a finite set of integers in ascending order
RECURSIVE Ascending(_)
Ascending(S) ==
    IF S = {} THEN <<>>
    ELSE LET m == CHOOSE x \in S : \A y \in S : x <= y
         IN  <<m>> \o Ascending(S \ {m})

PrimesUpTo(lim) == Ascending({n \in 2..lim : PrimeNumber(n)})

StrictlyAscending(s) == \A k \in 1..(Len(s) - 1) : s[k] < s[k + 1]

RangeSet(r) == r.start..r.end

Planned == mainpc # "plan"
Merging == mainpc \in {"merge", "sort", "output", "done"}
Merged == mainpc \in {"sort", "output", "done"}
Finished == mainpc \in {"output", "done"}

\* worker i's artifact, and whether reading it stops before its end
Artifact(i) == fs[tempFiles[i]]
RECURSIVE ReadStop(_, _)
ReadStop(s, p) ==
    LET b == SkipSpace(s, p)
        e == DigitsEnd(s, b)
    IN  IF e > b THEN ReadStop(s, e) ELSE b
Corrupt(f) == f.exists /\ ReadStop(f.data, 1) <= Len(f.data)

\* the accumulator of the run in which every artifact that exists is readable
RECURSIVE ReadableRunAll(_)
ReadableRunAll(i) ==
    IF i >= numThreads THEN <<>>
    ELSE (IF Artifact(i).exists THEN ReadInts(Artifact(i).data, 1) ELSE locals[i])
            \o ReadableRunAll(i + 1)

-----------------------------------------------------------------------------
\* C1: a run in which every worker wrote its artifact and the merge read every
\* artifact ends with the final sequence equal to the ascending list of the
\* primes in [2, limit], whatever the number of worker threads.
C1_FinalIsPrimes ==
    (Finished /\ \A i \in Workers : ofsOk[i] /\ gotFromFile[i])
        => all = PrimesUpTo(limit)

C1_Witness ==
    /\ mainpc = "done"
    /\ numThreads >= 3
    /\ \A i \in Workers : ofsOk[i] /\ gotFromFile[i]
    /\ Len(all) >= 5

\* C2: the planned ranges are pairwise disjoint and their union is exactly the
\* interval [1, limit], for every limit and thread count, including limit 0 and
\* 1, one thread, and indices whose block lies beyond the limit.
C2_RangesPartition ==
    Planned =>
        /\ DOMAIN ranges = 0..(numThreads - 1)
        /\ \A i, j \in DOMAIN ranges :
                i # j => RangeSet(ranges[i]) \cap RangeSet(ranges[j]) = {}
        /\ UNION {RangeSet(ranges[i]) : i \in DOMAIN ranges} = 1..limit

C2_Witness ==
    /\ Planned
    /\ numThreads >= 3
    /\ \E i \in DOMAIN ranges : ranges[i] = [start |-> 1, end |-> 0]
    /\ \E i \in DOMAIN ranges : ranges[i].end > ranges[i].start

\* C3: once the merge has started every worker thread has returned from
\* workerTask: no state has main in the merge (or later) and a worker running.
C3_MergeAfterAllWorkers ==
    Merging => \A i \in Workers : i \in DOMAIN targ /\ wpc[i] = "done"

C3_Witness ==
    /\ mainpc = "merge"
    /\ numThreads >= 2
    /\ idx = 1

\* C4: whichever artifacts cannot be opened for reading at merge time, the
\* final sequence equals the one of the run in which every artifact is read.
C4_UnreadableSameFinal ==
    Finished => all = Unique(Sort(ReadableRunAll(0)))

\* C5: when worker i could not open its artifact for writing, the merge takes
\* worker i's in-memory sequence for index i, whatever the file held before.
C5_FailedWriteUsesMemory ==
    \A i \in DOMAIN gotFromFile : ~ofsOk[i] => ~gotFromFile[i]

\* C6: when artifact i is missing or its content does not parse to its end,
\* the merge takes worker i's in-memory sequence for index i.
C6_CorruptUsesMemory ==
    \A i \in DOMAIN gotFromFile :
        (~Artifact(i).exists \/ Corrupt(Artifact(i))) => ~gotFromFile[i]

\* C7: after the sort and the removal of duplicates the final sequence is
\* strictly ascending, whatever the artifacts and fallbacks accumulated held.
C7_FinalStrictlyAscending == Finished => StrictlyAscending(all)

C7_Witness ==
    /\ mainpc = "done"
    /\ \E i \in Workers :
          /\ gotFromFile[i]
          /\ ~ofsOk[i]
          /\ ReadInts(Artifact(i).data, 1) = <<9, 4, 4>>
    /\ Len(all) >= 3

\* C8: the file names are pairwise distinct and all set before the first
\* worker starts, every started worker holds references to its own vector and
\* its own file name, and a step changes a vector or a file only as the step
\* of the one worker that owns it.
C8_NamesAndRefs ==
    /\ \A i, j \in DOMAIN tempFiles : i # j => tempFiles[i] # tempFiles[j]
    /\ DOMAIN targ # {} => DOMAIN tempFiles = Workers
    /\ \A i, j \in DOMAIN targ :
          i # j => /\ targ[i].localOut # targ[j].localOut
                   /\ tempFiles[targ[i].fileName] # tempFiles[targ[j].fileName]

C8_StepWritesOwn ==
    mainpc # "names" =>
        /\ tempFiles' = tempFiles
        /\ \A k \in DOMAIN locals :
              locals'[k] # locals[k] =>
                  /\ k \in DOMAIN targ
                  /\ wpc'[k] # wpc[k]
                  /\ \A j \in DOMAIN targ \ {k} : wpc'[j] = wpc[j]
        /\ \A k \in DOMAIN tempFiles :
              fs'[tempFiles[k]] # fs[tempFiles[k]] =>
                  /\ k \in DOMAIN targ
                  /\ wpc'[k] # wpc[k]
                  /\ \A j \in DOMAIN targ \ {k} : wpc'[j] = wpc[j]

\* C8: the names and references are exclusive in every state, and every step
\* writes only what the stepping worker owns.
C8_ExclusiveWrites == [](C8_NamesAndRefs) /\ [][C8_StepWritesOwn]_vars

C8_Witness ==
    /\ numThreads >= 3
    /\ \E i, j \in DOMAIN targ :
          /\ i # j
          /\ wpc[i] = "done" /\ ofsOk[i] /\ locals[i] # <<>>
          /\ wpc[j] = "write" /\ ofsOk[j] /\ locals[j] # <<>>

\* C9: when worker i failed to open its artifact, every other worker j is as
\* it is without that failure: its sequence is the scan of its own range, it
\* is not blocked, and its artifact, once written, holds its own sequence.
C9_FailureIsolated ==
    \A i \in DOMAIN targ :
        (wpc[i] \in {"write", "done"} /\ ~ofsOk[i]) =>
            \A j \in DOMAIN targ \ {i} :
                /\ wpc[j] \in {"open", "write", "done"} =>
                      locals[j] = ScanRange(ranges[j].start, ranges[j].end)
                /\ wpc[j] = "compute" => ENABLED WorkerCompute(j)
                /\ wpc[j] = "open" => ENABLED WorkerOpen(j)
                /\ wpc[j] = "write" => ENABLED WorkerWrite(j)
                /\ (wpc[j] = "done" /\ ofsOk[j]) =>
                      Artifact(j) = [exists |-> TRUE, data |-> Serialize(locals[j])]

C9_Witness ==
    \E i, j \in DOMAIN targ :
        /\ i # j
        /\ wpc[i] = "done" /\ ~ofsOk[i]
        /\ wpc[j] = "done" /\ ofsOk[j] /\ locals[j] # <<>>

\* C10: what the merge reads from the artifact worker i wrote is worker i's
\* sequence in the same order; an artifact written from an empty sequence
\* reads as zero integers and counts as read from the file.
C10_MergeStepReadsBack ==
    (mainpc = "merge" /\ idx \in DOMAIN locals /\ ofsOk[idx]
        /\ idx \in DOMAIN gotFromFile' /\ gotFromFile'[idx])
      => all' = all \o locals[idx]

\* C10: every artifact written by its worker reads back as the worker's
\* sequence, and the merge step that reads it appends exactly that sequence.
C10_RoundTrip ==
    /\ [](\A i \in DOMAIN targ :
            (wpc[i] = "done" /\ ofsOk[i]) =>
                ReadInts(Artifact(i).data, 1) = locals[i])
    /\ [][C10_MergeStepReadsBack]_vars

C10_Witness ==
    /\ Merged
    /\ \E i, j \in Workers :
          /\ ofsOk[i] /\ gotFromFile[i] /\ locals[i] = <<>>
          /\ Artifact(i).data = <<"\n">>
          /\ ofsOk[j] /\ gotFromFile[j] /\ Len(locals[j]) >= 2

\* C11: under fair scheduling of main and the worker threads every run reaches
\* the terminal state in which the final sequence is built and printed,
\* whichever opens for writing or for reading fail.
C11_Terminates == <>(mainpc = "done" /\ output.printed)

C11_Witness ==
    /\ mainpc = "done"
    /\ output.printed
    /\ numThreads >= 2
    /\ \E i \in Workers : ~ofsOk[i]
    /\ \E j \in Workers : Artifact(j).exists /\ ~gotFromFile[j]

\* C12: the merge visits the indices in ascending order and appends exactly
\* one source for each: what it read from artifact i when the artifact opened
\* (even when that is empty or differs from worker i's sequence), otherwise
\* worker i's in-memory sequence, never both.
RECURSIVE OneSourceEach(_, _)
OneSourceEach(i, n) ==
    IF i >= n THEN <<>>
    ELSE (IF gotFromFile[i] THEN ReadInts(Artifact(i).data, 1) ELSE locals[i])
            \o OneSourceEach(i + 1, n)

C12_OneSourcePerIndex ==
    /\ mainpc = "merge" =>
          /\ DOMAIN gotFromFile = 0..(idx - 1)
          /\ all = OneSourceEach(0, idx)
    /\ mainpc = "sort" =>
          /\ DOMAIN gotFromFile = Workers
          /\ all = OneSourceEach(0, numThreads)
    /\ \A i \in DOMAIN gotFromFile : gotFromFile[i] => Artifact(i).exists

C12_Witness ==
    /\ mainpc = "sort"
    /\ \E i, j, k \in Workers :
          /\ gotFromFile[i] /\ ReadInts(Artifact(i).data, 1) # locals[i]
          /\ gotFromFile[j] /\ ReadInts(Artifact(j).data, 1) = <<>>
          /\ ~gotFromFile[k] /\ locals[k] # <<>>

\* C13: isPrime(n) returns for every n of the integer type, returns true
\* exactly when n is prime, and never overflows in the guard d * d <= n.
C13_IsPrimeTotalCorrect ==
    calc.pc \in {"loop", "returned", "trapped"} =>
        /\ calc.pc # "trapped"
        /\ ~calc.overflow
        /\ calc.pc = "returned" => (calc.result <=> PrimeNumber(calc.n))

\* C14: once worker i has scanned, its in-memory sequence is exactly the
\* primes of its range in ascending order, whether or not its artifact could be
\* opened; for an empty range it is empty.
C14_LocalIsPrimesOfRange ==
    \A i \in DOMAIN targ :
        wpc[i] \in {"open", "write", "done"} =>
            /\ locals[i] = Ascending({x \in RangeSet(ranges[i]) : PrimeNumber(x)})
            /\ ranges[i].start > ranges[i].end => locals[i] = <<>>

C14_Witness ==
    \E i, j \in DOMAIN targ :
        /\ wpc[i] = "done" /\ ~ofsOk[i] /\ locals[i] # <<>>
        /\ wpc[j] = "done" /\ ranges[j] = [start |-> 1, end |-> 0] /\ locals[j] = <<>>

\* C15: the planner gives every worker index 0..numThreads-1 one Range with
\* end >= start - 1: start = i*block + 1 and end = min(limit, (i+1)*block)
\* with block = ceil(limit / numThreads) when that range is not empty, and
\* the explicit empty Range start = 1, end = 0 otherwise.
CeilOf(a, b) == CHOOSE q \in 0..a : q * b >= a /\ (q - 1) * b < a

C15_PlanShape ==
    Planned =>
        /\ DOMAIN ranges = 0..(numThreads - 1)
        /\ \A i \in DOMAIN ranges :
              LET block == CeilOf(limit, numThreads)
                  s == i * block + 1
                  e == IF limit < (i + 1) * block THEN limit ELSE (i + 1) * block
              IN  /\ ranges[i].end >= ranges[i].start - 1
                  /\ s <= e => ranges[i] = [start |-> s, end |-> e]
                  /\ s > e => ranges[i] = [start |-> 1, end |-> 0]

C15_Witness ==
    /\ Planned
    /\ limit >= 2
    /\ \E i, j \in DOMAIN ranges :
          /\ i >= 1 /\ ranges[i].start > 1 /\ ranges[i].end > ranges[i].start
          /\ j >= 2 /\ ranges[j] = [start |-> 1, end |-> 0]

\* C16 as stated: for every limit and every detection result, 0 included, the
\* number of threads is min(detected concurrency, max(1, limit)), forced to 1
\* when limit < 2, and is at least 1.
C16_CountFromDetected ==
    Planned =>
        /\ numThreads = IF limit < 2 THEN 1
                        ELSE IF detected < limit THEN detected ELSE limit
        /\ numThreads >= 1

\* C16 amended: the same with a detection result of 0 replaced by 2 first.
C16_CountFromEffective ==
    Planned =>
        LET h == IF detected = 0 THEN 2 ELSE detected
            m == IF limit > 1 THEN limit ELSE 1
        IN  /\ hw = h
            /\ numThreads = IF limit < 2 THEN 1 ELSE IF h < m THEN h ELSE m
            /\ numThreads >= 1

C16_Witness ==
    /\ Planned
    /\ detected = 0
    /\ limit >= 3
    /\ numThreads = 2

\* C17 as stated: worker i opens its artifact at the start of its execution,
\* before it scans its range, and the merge reads only after the workers:
\* no state has a worker that finished scanning and has not yet opened.
ScanDone(i) == wpc[i] \in {"open", "write", "done"}
OpenAttempted(i) == wpc[i] \in {"write", "done"}

C17_OpenedBeforeScan ==
    /\ \A i \in DOMAIN targ : ScanDone(i) => OpenAttempted(i)
    /\ Merging => \A i \in Workers : i \in DOMAIN targ /\ wpc[i] = "done"

\* C17 amended: worker i scans its range first, then opens (creates or
\* truncates) artifact i and writes its sequence as its last step; the merge
\* reads afterwards; no step deletes an artifact.
C17_StepOrder ==
    /\ \A n \in FileNames : fs[n].exists => fs'[n].exists
    /\ gotFromFile' # gotFromFile =>
          \A i \in Workers : i \in DOMAIN targ /\ wpc[i] = "done"
    /\ \A i \in DOMAIN targ :
          /\ locals'[i] # locals[i] =>
                wpc[i] = "compute" /\ wpc'[i] = "open" /\ fs' = fs
          /\ fs'[tempFiles[i]] # fs[tempFiles[i]] =>
                /\ locals[i] = ScanRange(ranges[i].start, ranges[i].end)
                /\ locals' = locals
                /\ \/ wpc[i] = "open" /\ wpc'[i] = "write" /\ ofsOk'[i]
                      /\ fs'[tempFiles[i]] = [exists |-> TRUE, data |-> <<>>]
                   \/ wpc[i] = "write" /\ wpc'[i] = "done" /\ ofsOk[i]
                      /\ fs'[tempFiles[i]] =
                            [exists |-> TRUE, data |-> Serialize(locals[i])]
          /\ wpc'[i] # wpc[i] =>
                <<wpc[i], wpc'[i]>> \in {<<"unborn", "compute">>, <<"compute", "open">>,
                                        <<"open", "write">>, <<"write", "done">>}

\* C17 amended, as a property of every step
C17_Lifecycle == [][mainpc \notin {"plan", "names"} => C17_StepOrder]_vars

C17_Witness ==
    /\ mainpc = "merge"
    /\ idx >= 1
    /\ ofsOk[0] /\ gotFromFile[0]
    /\ locals[0] # <<>>
    /\ Artifact(0).data = Serialize(locals[0])

\* C18: for every limit of the integer type and every number of threads the
\* program chooses, the planner's arithmetic does not overflow: block is the
\* mathematical ceil(limit / numThreads) and every start and end computed is
\* the mathematical i*block + 1 and min(limit, (i+1)*block).
C18_PlannerNoOverflow ==
    calc.pc \in {"range", "planned", "undefined"} =>
        /\ ~calc.overflow
        /\ calc.pc # "undefined"
        /\ calc.block = CeilOf(calc.limit, calc.n)
        /\ calc.i >= 1 =>
              LET s == (calc.i - 1) * CeilOf(calc.limit, calc.n) + 1
                  e == Min(calc.limit, calc.i * CeilOf(calc.limit, calc.n))
              IN  IF s > e THEN calc.start = 1 /\ calc.end = 0
                  ELSE calc.start = s /\ calc.end = e

\* C19: in a run where every worker wrote its artifact and the merge read
\* every artifact, the accumulator is strictly ascending before the sort: the
\* values of a lower index are all smaller than those of a higher index, and
\* the sort and the removal of duplicates change nothing.
C19_AscendingBeforeSort ==
    (mainpc = "sort" /\ \A i \in Workers : ofsOk[i] /\ gotFromFile[i]) =>
        /\ StrictlyAscending(all)
        /\ \A i, j \in Workers :
              i < j => \A a \in 1..Len(locals[i]), b \in 1..Len(locals[j]) :
                          locals[i][a] < locals[j][b]
        /\ Unique(Sort(all)) = all

C19_Witness ==
    /\ mainpc = "sort"
    /\ numThreads >= 3
    /\ \A i \in Workers : ofsOk[i] /\ gotFromFile[i] /\ locals[i] # <<>>
    /\ Len(all) >= 4

====
